---- MODULE Spec2Model ----
(***************************************************************************)
(* TensorView (Source/Math/TensorView.cpp): a view that reinterprets the   *)
(* content of a Matrix as a tensor, and the shape alignment done by        *)
(* DoBinaryOpOf before an elementwise operation.                           *)
(*                                                                         *)
(* Sequences are 1-based: the code's axis k is index k+1 here, the code's  *)
(* participant i (0 = a, 1 = b, 2 = c, the output) is index i+1.           *)
(* A TensorShape is a record [dims, strides] of two equally long           *)
(* sequences.                                                              *)
(***************************************************************************)
EXTENDS Integers, Sequences, FiniteSets, TLC

\* ---------------------------------------------------------------- bounds
MaxRank == 3        \* largest number of axes of a declared shape
MaxElems == 4       \* largest number of elements of a storage object

\* ------------------------------------------------------- program constants
N == 3              \* participants of a binary operation: a, b and the output c

VARIABLES
    pc,         \* position in the running function
    caller,     \* which entry point is running: "none", "Reshape", "DoBinaryOpOf", "Test"
    sob,        \* constructor: [rows, cols] of the storage object m_sob
    m_shape,    \* constructor: the dims of the shape being bound
    i,          \* constructor: the scan index i
    rowDim,     \* constructor: running product of the leading dims
    colDim,     \* constructor: running product of the remaining dims
    views,      \* Test: the views t1, t2, t3 constructed so far
    inp,        \* DoBinaryOpOf: a.GetShape(), b.GetShape(), c.GetShape()
    shapes,     \* DoBinaryOpOf: the local array shapes[N]
    dims,       \* DoBinaryOpOf: the common rank
    opDims,     \* DoBinaryOpOf: the operation shape
    k,          \* DoBinaryOpOf: the flatten loop's axis
    toDrop,     \* DoBinaryOpOf: the all-singleton axes
    err         \* the exception raised, or "none"

vars == <<pc, caller, sob, m_shape, i, rowDim, colDim, views, inp, shapes,
          dims, opDims, k, toDrop, err>>

ctorVars == <<sob, m_shape, i, rowDim, colDim>>
opVars == <<inp, shapes, dims, opDims, k, toDrop>>

\* ------------------------------------------------------------ arithmetic
RECURSIVE Prod(_)
Prod(s) == IF s = <<>> THEN 1 ELSE s[1] * Prod(Tail(s))

Max(x, y) == IF x >= y THEN x ELSE y

RECURSIVE MaxOver(_)
MaxOver(s) == IF s = <<>> THEN 0 ELSE Max(s[1], MaxOver(Tail(s)))

\* ------------------------------------------------------------ TensorShape
\* strides of a shape stored without gaps: the first axis is the fastest
DenseStrides(d) == [j \in 1..Len(d) |-> Prod(SubSeq(d, 1, j - 1))]

TensorShape(d) == [dims |-> d, strides |-> DenseStrides(d)]

GetNumDims(s) == Len(s.dims)

\* append singleton axes up to numDims axes
\* (the appended axes continue the layout of the last axis)
Pad(s, numDims) ==
    IF numDims <= GetNumDims(s) THEN s
    ELSE LET r == GetNumDims(s)
             top == IF r = 0 THEN 1 ELSE s.strides[r] * s.dims[r]
         IN  [dims    |-> s.dims \o [j \in 1..(numDims - r) |-> 1],
              strides |-> s.strides \o [j \in 1..(numDims - r) |-> top]]

\* can axes kk and kk-1 be merged: stored without a gap between them?
CanFlatten(s, kk) == s.strides[kk] = s.strides[kk - 1] * s.dims[kk - 1]

\* merge axis kk-1 into axis kk; axis kk-1 stays as a singleton
Flatten(s, kk) ==
    [dims    |-> [s.dims EXCEPT ![kk] = s.dims[kk] * s.dims[kk - 1], ![kk - 1] = 1],
     strides |-> [s.strides EXCEPT ![kk] = s.strides[kk - 1]]]

RECURSIVE Keep(_, _, _)
Keep(seq, drop, j) ==
    IF j > Len(seq) THEN <<>>
    ELSE IF drop[j] THEN Keep(seq, drop, j + 1)
    ELSE <<seq[j]>> \o Keep(seq, drop, j + 1)

\* remove every axis j with drop[j]
DropSingletonDims(s, drop) ==
    [dims |-> Keep(s.dims, drop, 1), strides |-> Keep(s.strides, drop, 1)]

\* stride 0 on every axis of extent 1
WithBroadcastStrides(s) ==
    [dims    |-> s.dims,
     strides |-> [j \in 1..Len(s.dims) |-> IF s.dims[j] = 1 THEN 0 ELSE s.strides[j]]]

\* --------------------------------------------------------------- inputs
RECURSIVE DimsOfRank(_)
DimsOfRank(r) ==
    IF r = 0 THEN {<<>>}
    ELSE {Append(d, e) : d \in DimsOfRank(r - 1), e \in 1..MaxElems}

\* the declared shapes: up to MaxRank axes, every extent >= 1
AllDims == {d \in UNION {DimsOfRank(r) : r \in 0..MaxRank} : Prod(d) <= MaxElems}

\* the storage objects: rows x cols matrices, the empty ones included
AllSobs == {m \in [rows : 0..MaxElems, cols : 0..MaxElems] : m.rows * m.cols <= MaxElems}

\* ------------------------------------------------------------ TensorView
\* mutant: the scan goes on while rowDim <= rows
RowScanGoesOnInclusive(ii, rd, shp, m) == ii < Len(shp) /\ rd <= m.rows

\* the first loop of the reshape constructor goes on
RowScanGoesOn(ii, rd, shp, m) == ii < Len(shp) /\ rd < m.rows

\* the constructor's final test
DimsMismatch(rd, cd, m) == rd # m.rows \/ cd # m.cols

Init ==
    /\ pc = "idle"
    /\ caller = "none"
    /\ sob = [rows |-> 0, cols |-> 0]
    /\ m_shape = <<>>
    /\ i = 0
    /\ rowDim = 1
    /\ colDim = 1
    /\ views = <<>>
    /\ inp = <<>>
    /\ shapes = <<>>
    /\ dims = 0
    /\ opDims = <<>>
    /\ k = 0
    /\ toDrop = <<>>
    /\ err = "none"

\* enter TensorView(other, shape), other being a view of the matrix m
EnterCtor(m, shp) ==
    /\ sob' = m
    /\ m_shape' = shp
    /\ i' = 0
    /\ rowDim' = 1
    /\ colDim' = 1
    /\ pc' = "ctor_row"

\* a caller reshapes a view of some matrix
Reshape ==
    /\ pc = "idle"
    /\ \E m \in AllSobs, shp \in AllDims : EnterCtor(m, shp)
    /\ caller' = "Reshape"
    /\ UNCHANGED <<views, err>>
    /\ UNCHANGED opVars

\* for (i = 0; i < size && rowDim < rows; i++) rowDim *= m_shape[i];
CtorRowLoop ==
    /\ pc = "ctor_row"
    /\ IF RowScanGoesOn(i, rowDim, m_shape, sob)
       THEN /\ rowDim' = rowDim * m_shape[i + 1]
            /\ i' = i + 1
            /\ pc' = pc
       ELSE /\ pc' = "ctor_col"
            /\ UNCHANGED <<rowDim, i>>
    /\ UNCHANGED <<caller, sob, m_shape, colDim, views, err>>
    /\ UNCHANGED opVars

\* for (; i < size; i++) colDim *= m_shape[i];
CtorColLoop ==
    /\ pc = "ctor_col"
    /\ IF i < Len(m_shape)
       THEN /\ colDim' = colDim * m_shape[i + 1]
            /\ i' = i + 1
            /\ pc' = pc
       ELSE /\ pc' = "ctor_check"
            /\ UNCHANGED <<colDim, i>>
    /\ UNCHANGED <<caller, sob, m_shape, rowDim, views, err>>
    /\ UNCHANGED opVars

\* if (rowDim != rows || colDim != cols) LogicError(...)
CtorCheck ==
    /\ pc = "ctor_check"
    /\ IF DimsMismatch(rowDim, colDim, sob)
       THEN /\ err' = "StorageFactorizationError"
            /\ pc' = "failed"
            /\ UNCHANGED views
       ELSE /\ err' = err
            /\ views' = Append(views, [sob |-> sob, shape |-> TensorShape(m_shape)])
            /\ pc' = IF caller = "Test" THEN "test" ELSE "constructed"
    /\ UNCHANGED <<caller>>
    /\ UNCHANGED ctorVars
    /\ UNCHANGED opVars

\* ---------------------------------------------------------- DoBinaryOpOf
\* mutant: no broadcasting, the dimensions must be equal
MatchesExact(d1, d2) == d1 = d2

\* mutant: only the operation dimension may be 1
MatchesOpOnly(d1, d2) == d2 = 1 \/ d1 = d2

\* do two dimensions match?
Matches(d1, d2) == d1 = 1 \/ d2 = 1 \/ d1 = d2

\* mutant: one axis too many
CommonRankPlusOne(shs) == MaxOver([j \in 1..N |-> GetNumDims(shs[j])]) + 1

\* dims: the largest number of axes among the participants
CommonRank(shs) == MaxOver([j \in 1..N |-> GetNumDims(shs[j])])

\* shapes[i] = shapes[i].Pad(dims)
PadAll(shs, n) == [j \in 1..N |-> Pad(shs[j], n)]

RECURSIVE MinOver(_)
MinOver(s) ==
    IF Len(s) = 1 THEN s[1]
    ELSE IF s[1] <= MinOver(Tail(s)) THEN s[1] ELSE MinOver(Tail(s))

\* mutant: min written for max
OpDimsOfMin(shs, n) == [kk \in 1..n |-> MinOver([j \in 1..N |-> shs[j].dims[kk]])]

\* operation shape: max over all participants, per axis
OpDimsOf(shs, n) == [kk \in 1..n |-> MaxOver([j \in 1..N |-> shs[j].dims[kk]])]

\* mutant: the output is not checked
IncompatibleInputsOnly(shs, op, n) ==
    \E kk \in 1..n : \E j \in 1..(N - 1) : ~Matches(shs[j].dims[kk], op[kk])

\* the dimension compatibility check finds an offending axis
Incompatible(shs, op, n) ==
    \E kk \in 1..n : \E j \in 1..N : ~Matches(shs[j].dims[kk], op[kk])

\* mutant: the broadcast status is not compared
CanMergeIgnoringBroadcast(shs, op, kk) == \A j \in 1..N : CanFlatten(shs[j], kk)

\* mutant: only the first participant is looked at
CanMergeFirstOnly(shs, op, kk) ==
    /\ CanFlatten(shs[1], kk)
    /\ ~(/\ (shs[1].dims[kk] # op[kk] \/ shs[1].dims[kk - 1] # op[kk - 1])
         /\ (shs[1].dims[kk] # 1 \/ shs[1].dims[kk - 1] # 1))

\* mutant: gaps in the storage are not looked for
CanMergeNoGapCheck(shs, op, kk) ==
    \A j \in 1..N :
        ~(/\ (shs[j].dims[kk] # op[kk] \/ shs[j].dims[kk - 1] # op[kk - 1])
          /\ (shs[j].dims[kk] # 1 \/ shs[j].dims[kk - 1] # 1))

\* no participant jumps to nope: every one is stored without gaps across
\* kk-1 and kk, and is either non-broadcasting on both axes or all ones
CanMerge(shs, op, kk) ==
    \A j \in 1..N :
        /\ CanFlatten(shs[j], kk)
        /\ ~(/\ (shs[j].dims[kk] # op[kk] \/ shs[j].dims[kk - 1] # op[kk - 1])
             /\ (shs[j].dims[kk] # 1 \/ shs[j].dims[kk - 1] # 1))

\* one iteration of the flatten loop on st = [shapes, opDims]
FlattenAxis(st, kk) ==
    IF CanMerge(st.shapes, st.opDims, kk)
    THEN [shapes |-> [j \in 1..N |-> Flatten(st.shapes[j], kk)],
          opDims |-> Flatten(TensorShape(st.opDims), kk).dims]
    ELSE st

\* mutant: the output is not looked at
AllSingletonInputs(shs, kk) == \A j \in 1..(N - 1) : shs[j].dims[kk] = 1

\* is axis kk a singleton in every participant?
AllSingleton(shs, kk) == \A j \in 1..N : shs[j].dims[kk] = 1

ToDropOf(shs, n) == [kk \in 1..n |-> AllSingleton(shs, kk)]

\* the shapes a caller may pass: views of dense storage
InputShapes == {TensorShape(d) : d \in AllDims}

\* shapes with stride magic applied: the view takes the first dims[1] rows
\* of a matrix twice as tall, so every stride above axis 1 is doubled
SlicedShapes ==
    {[dims    |-> d,
      strides |-> [j \in 1..Len(d) |-> IF j = 1 THEN 1 ELSE 2 * DenseStrides(d)[j]]] :
        d \in {e \in AllDims : Len(e) >= 2}}

\* c.DoBinaryOpOf(beta, a, b, alpha, op): shapes[] = the three shapes
EnterOp(a, b, c) ==
    /\ inp' = <<a, b, c>>
    /\ shapes' = <<a, b, c>>
    /\ dims' = 0
    /\ opDims' = <<>>
    /\ k' = 0
    /\ toDrop' = <<>>
    /\ pc' = "pad"

Call ==
    /\ pc = "idle"
    /\ \E a \in InputShapes \cup SlicedShapes, b \in InputShapes, c \in InputShapes :
            EnterOp(a, b, c)
    /\ caller' = "DoBinaryOpOf"
    /\ UNCHANGED <<views, err>>
    /\ UNCHANGED ctorVars

\* expand ones to make tensors compatible
PadStep ==
    /\ pc = "pad"
    /\ dims' = CommonRank(shapes)
    /\ shapes' = PadAll(shapes, CommonRank(shapes))
    /\ pc' = "opdims"
    /\ UNCHANGED <<caller, views, err, inp, opDims, k, toDrop>>
    /\ UNCHANGED ctorVars

\* determine operation shape
OpDimsStep ==
    /\ pc = "opdims"
    /\ opDims' = OpDimsOf(shapes, dims)
    /\ pc' = "check"
    /\ UNCHANGED <<caller, views, err, inp, shapes, dims, k, toDrop>>
    /\ UNCHANGED ctorVars

\* dimension compatibility check
CheckStep ==
    /\ pc = "check"
    /\ IF Incompatible(shapes, opDims, dims)
       THEN /\ err' = "ShapeMismatch"
            /\ pc' = "failed"
            /\ k' = k
       ELSE /\ err' = err
            /\ pc' = "flatten"
            /\ k' = 2
    /\ UNCHANGED <<caller, views, inp, shapes, dims, opDims, toDrop>>
    /\ UNCHANGED ctorVars

\* flatten consecutive dimensions: one iteration of for (k = 1; k < dims; k++)
FlattenStep ==
    /\ pc = "flatten"
    /\ k <= dims
    /\ shapes' = FlattenAxis([shapes |-> shapes, opDims |-> opDims], k).shapes
    /\ opDims' = FlattenAxis([shapes |-> shapes, opDims |-> opDims], k).opDims
    /\ k' = k + 1
    /\ UNCHANGED <<pc, caller, views, err, inp, dims, toDrop>>
    /\ UNCHANGED ctorVars

\* remove singleton dimensions, once the flatten loop has ended
DropStep ==
    /\ pc = "flatten"
    /\ k > dims
    /\ toDrop' = ToDropOf(shapes, dims)
    /\ shapes' = [j \in 1..N |-> DropSingletonDims(shapes[j], ToDropOf(shapes, dims))]
    /\ opDims' = DropSingletonDims(TensorShape(opDims), ToDropOf(shapes, dims)).dims
    /\ pc' = "bcast"
    /\ UNCHANGED <<caller, views, err, inp, dims, k>>
    /\ UNCHANGED ctorVars

\* determine broadcasting: set strides to 0 for 1-dimensions
BroadcastStep ==
    /\ pc = "bcast"
    /\ shapes' = [j \in 1..N |-> WithBroadcastStrides(shapes[j])]
    /\ pc' = "done"
    /\ UNCHANGED <<caller, views, err, inp, dims, opDims, k, toDrop>>
    /\ UNCHANGED ctorVars

\* ------------------------------------------------------------------ Test
TestSobs == <<[rows |-> 1, cols |-> 42], [rows |-> 13, cols |-> 1], [rows |-> 13, cols |-> 21]>>
TestDims == <<<<1, 2, 21>>, <<13, 1>>, <<13, 1, 21>>>>

Test ==
    /\ pc = "idle"
    /\ caller' = "Test"
    /\ pc' = "test"
    /\ UNCHANGED <<views, err>>
    /\ UNCHANGED ctorVars
    /\ UNCHANGED opVars

\* let t = TensorView(m, s), for t1, t2, t3 in turn
TestConstruct ==
    /\ pc = "test"
    /\ Len(views) < N
    /\ EnterCtor(TestSobs[Len(views) + 1], TestDims[Len(views) + 1])
    /\ UNCHANGED <<caller, views, err>>
    /\ UNCHANGED opVars

\* t3.DoSumOf(0, t1, t2, 1)
TestDoSumOf ==
    /\ pc = "test"
    /\ Len(views) = N
    /\ EnterOp(views[1].shape, views[2].shape, views[3].shape)
    /\ UNCHANGED <<caller, views, err>>
    /\ UNCHANGED ctorVars

Next ==
    \/ Reshape \/ CtorRowLoop \/ CtorColLoop \/ CtorCheck
    \/ Call \/ PadStep \/ OpDimsStep \/ CheckStep \/ FlattenStep \/ DropStep \/ BroadcastStep
    \/ Test \/ TestConstruct \/ TestDoSumOf

Spec == Init /\ [][Next]_vars

\* ------------------------------------------- DoBinaryOpOf as a function
RECURSIVE FlattenFrom(_, _, _)
FlattenFrom(st, kk, n) ==
    IF kk > n THEN st
    ELSE CHOOSE r \in {FlattenFrom(s, kk + 1, n) : s \in {FlattenAxis(st, kk)}} : TRUE

\* the steps after the compatibility check, from the padded shapes p
AlignChecked(p, op, n) ==
    LET Dropped(f, td) ==
            [ok     |-> TRUE,
             shapes |-> [j \in 1..N |->
                            WithBroadcastStrides(DropSingletonDims(f.shapes[j], td))],
             opDims |-> DropSingletonDims(TensorShape(f.opDims), td).dims]
    IN  CHOOSE r \in {Dropped(f, ToDropOf(f.shapes, n)) :
                        f \in {FlattenFrom([shapes |-> p, opDims |-> op], 2, n)}} : TRUE

\* the whole alignment of the participants shs, in the order given
Align(shs) ==
    LET Checked(p, op, n) ==
            IF Incompatible(p, op, n)
            THEN [ok |-> FALSE, shapes |-> p, opDims |-> op]
            ELSE AlignChecked(p, op, n)
        Padded(p, n) == CHOOSE r \in {Checked(p, op, n) : op \in {OpDimsOf(p, n)}} : TRUE
    IN  CHOOSE r \in {Padded(p, CommonRank(shs)) : p \in {PadAll(shs, CommonRank(shs))}} : TRUE

\* -------------------------------------------------------- dispatch plan
\* axes that index the output
RegularAxes(shs) == {kk \in 1..Len(shs[N].dims) : shs[N].dims[kk] > 1}

\* axes the output does not have and some input does: reduction axes
InverseAxes(shs) ==
    {kk \in 1..Len(shs[N].dims) :
        shs[N].dims[kk] = 1 /\ \E j \in 1..(N - 1) : shs[j].dims[kk] > 1}

RECURSIVE ProdOver(_, _)
ProdOver(op, axes) ==
    IF axes = {} THEN 1
    ELSE LET kk == CHOOSE x \in axes : TRUE IN op[kk] * ProdOver(op, axes \ {kk})

\* number of regular positions
WorkSize(shs, op) == ProdOver(op, RegularAxes(shs))

\* number of inverse-broadcast positions per regular position
TripCount(shs, op) == ProdOver(op, InverseAxes(shs))

\* ================================================================ claims
\* the alignment has passed the compatibility check
Aligned == pc \in {"flatten", "bcast", "done"}

\* extent of axis kk of the declared dims d once padded with ones
PaddedExtent(d, kk) == IF kk <= Len(d) THEN d[kk] ELSE 1

InputRanks == {Len(inp[j].dims) : j \in 1..N}
MaxInputRank == CHOOSE r \in InputRanks : \A q \in InputRanks : q <= r

\* the largest extent any participant declares at axis kk
AxisMax(kk) ==
    CHOOSE m \in {PaddedExtent(inp[j].dims, kk) : j \in 1..N} :
        \A j \in 1..N : PaddedExtent(inp[j].dims, kk) <= m

\* some participant has an extent that is neither 1 nor the axis maximum
HasBadExtent ==
    \E kk \in 1..MaxInputRank : \E j \in 1..N :
        /\ PaddedExtent(inp[j].dims, kk) # 1
        /\ PaddedExtent(inp[j].dims, kk) # AxisMax(kk)

\* C1: DoBinaryOpOf raises ShapeMismatch if and only if some participant has
\* an extent that is neither 1 nor the per-axis maximum of the padded shapes;
\* when it raises, the shapes are the padded ones and no flatten, drop or
\* broadcast-stride step has run.
C1_MismatchIffBadExtent ==
    /\ (pc = "failed" /\ err = "ShapeMismatch") =>
            /\ HasBadExtent
            /\ shapes = PadAll(inp, MaxInputRank)
            /\ k = 0
            /\ toDrop = <<>>
    /\ Aligned => (~HasBadExtent /\ err = "none")

C1_Witness ==
    /\ pc = "failed" /\ err = "ShapeMismatch" /\ caller = "DoBinaryOpOf"
    /\ \E j \in 1..N : Len(inp[j].dims) < dims

\* is there a split point s: dims[0..s) multiply to rows, dims[s..end) to cols?
HasSplit(d, m) ==
    \E s \in 0..Len(d) :
        /\ Prod(SubSeq(d, 1, s)) = m.rows
        /\ Prod(SubSeq(d, s + 1, Len(d))) = m.cols

\* C2: the reshape constructor succeeds if and only if some split point
\* factors the shape into the storage object's rows and columns; otherwise
\* it raises StorageFactorizationError.
C2_CtorAcceptsIffSplit ==
    /\ (pc = "failed" /\ err = "StorageFactorizationError") => ~HasSplit(m_shape, sob)
    /\ pc = "constructed" =>
            /\ HasSplit(m_shape, sob)
            /\ err = "none"
            /\ views = <<[sob |-> sob, shape |-> TensorShape(m_shape)]>>

\* a shape accepted at a split neither first nor last, with ones around it
C2_Witness ==
    /\ pc = "constructed"
    /\ Len(m_shape) = 3
    /\ sob.rows = 2 /\ sob.cols = 2
    /\ m_shape[2] = 1

\* C3: once the compatibility check has passed, after the pad, after every
\* flatten iteration, after the drop and in the final result, opDims is as
\* long as every participant's shape and every extent is 1 or opDims' extent.
C3_OperationDescriptor ==
    Aligned =>
        \A j \in 1..N :
            /\ Len(shapes[j].dims) = Len(opDims)
            /\ Len(shapes[j].strides) = Len(opDims)
            /\ \A kk \in 1..Len(opDims) :
                    shapes[j].dims[kk] = 1 \/ shapes[j].dims[kk] = opDims[kk]

\* a final result in which axes were merged and dropped and one participant
\* broadcasts
C3_Witness ==
    /\ pc = "done"
    /\ Len(opDims) = 2
    /\ dims = 3
    /\ opDims[1] = 4
    /\ \E j \in 1..N : shapes[j].dims[1] = 1

\* participant j1 declares extent 1 at axis kk where j2 declares m > 1
Broadcasts(j1, j2, kk) ==
    /\ j1 # j2
    /\ kk <= Len(inp[j1].dims) /\ inp[j1].dims[kk] = 1
    /\ kk <= Len(inp[j2].dims) /\ inp[j2].dims[kk] > 1

\* the axis of the flattened shapes that holds the padded axis kk: merging
\* moves an axis into its upper neighbour and leaves an all-singleton axis
MergedInto(kk) ==
    CHOOSE q \in kk..dims : ~toDrop[q] /\ \A r \in kk..(q - 1) : toDrop[r]

\* its index once the all-singleton axes are removed
FinalAxis(kk) == Cardinality({q \in 1..MergedInto(kk) : ~toDrop[q]})

\* C4 as stated: at the end of the alignment the final opDims has extent m
\* at the same index kk and the broadcasting participant has stride 0 there.
C4_AsStated ==
    pc = "done" =>
        \A j1 \in 1..N, j2 \in 1..N, kk \in 1..dims :
            Broadcasts(j1, j2, kk) =>
                /\ kk <= Len(opDims)
                /\ opDims[kk] = inp[j2].dims[kk]
                /\ shapes[j1].strides[kk] = 0

\* C4 (amended): when the alignment succeeds, opDims[kk] is m when it is
\* computed from the padded shapes, before flatten and drop merge and
\* renumber the axes; in the final result the broadcasting participant has
\* extent 1 and stride 0 on the axis that axis kk has become, and the
\* operation extent there is a multiple of m.
C4_BroadcastAxis ==
    \A j1 \in 1..N, j2 \in 1..N, kk \in 1..dims :
        (Len(inp) = N /\ Broadcasts(j1, j2, kk)) =>
            /\ (pc = "flatten" /\ k = 2) => opDims[kk] = inp[j2].dims[kk]
            /\ pc = "done" =>
                    /\ shapes[j1].dims[FinalAxis(kk)] = 1
                    /\ shapes[j1].strides[FinalAxis(kk)] = 0
                    /\ opDims[FinalAxis(kk)] % inp[j2].dims[kk] = 0
                    /\ opDims[FinalAxis(kk)] > 1

\* a broadcast axis that ends at another index than it was declared at
C4_Witness ==
    /\ pc = "done"
    /\ \E j1 \in 1..N, j2 \in 1..N, kk \in 1..dims :
            /\ Broadcasts(j1, j2, kk)
            /\ FinalAxis(kk) # kk
            /\ opDims[FinalAxis(kk)] > inp[j2].dims[kk]

\* C5: in the self-test all three views are constructed, every participant
\* is padded to rank 3, opDims is computed as (13, 2, 21), the compatibility
\* check passes and the operation runs to its end without an exception.
C5_SelfTest ==
    caller = "Test" =>
        /\ err = "none"
        /\ pc # "failed"
        /\ pc = "test" => \A n \in 1..Len(views) :
                /\ views[n].sob = TestSobs[n]
                /\ views[n].shape.dims = TestDims[n]
        /\ pc \in {"opdims", "check"} =>
                /\ dims = 3
                /\ \A j \in 1..N : Len(shapes[j].dims) = 3
        /\ (pc = "check" \/ (pc = "flatten" /\ k = 2)) => opDims = <<13, 2, 21>>
        /\ pc # "done" => ENABLED Next

C5_Witness ==
    /\ caller = "Test"
    /\ pc = "done"
    /\ Len(views) = N
    /\ opDims = <<13, 2, 21>>

\* the reorderings of the participants
Perms ==
    {p \in [1..N -> 1..N] :
        /\ \A x \in 1..N, y \in 1..N : p[x] = p[y] => x = y
        /\ \E x \in 1..N : p[x] # x}

\* C6: the final opDims of a successful alignment, and success against
\* ShapeMismatch, are the same for every reordering of the participants.
C6_OrderIndependent ==
    /\ pc = "done" =>
            \A p \in Perms : \E r \in {Align([j \in 1..N |-> inp[p[j]]])} :
                r.ok /\ r.opDims = opDims
    /\ (pc = "failed" /\ err = "ShapeMismatch") =>
            \A p \in Perms : ~Align([j \in 1..N |-> inp[p[j]]]).ok

\* three different participants, one a slice, with axes merged and dropped
C6_Witness ==
    /\ pc = "done"
    /\ inp[1].dims # inp[2].dims /\ inp[2].dims # inp[3].dims /\ inp[1].dims # inp[3].dims
    /\ inp[1] \in SlicedShapes
    /\ Len(opDims) = 2
    /\ dims = 3

\* C7: pad never lowers a rank, flatten and drop never raise it, and the
\* aligned rank is at most the largest rank of the inputs.
C7_RankMonotone ==
    /\ pc \in {"opdims", "check"} =>
            /\ dims = MaxInputRank
            /\ \A j \in 1..N : /\ Len(shapes[j].dims) >= Len(inp[j].dims)
                               /\ Len(shapes[j].dims) = MaxInputRank
    /\ pc = "flatten" =>
            /\ Len(opDims) = dims
            /\ \A j \in 1..N : Len(shapes[j].dims) = dims
    /\ Aligned =>
            /\ dims = MaxInputRank
            /\ Len(opDims) <= MaxInputRank
            /\ \A j \in 1..N : Len(shapes[j].dims) <= MaxInputRank

C7_Witness ==
    /\ pc = "done"
    /\ Len(opDims) < MaxInputRank
    /\ Len(opDims) > 0
    /\ \E j \in 1..N : Len(inp[j].dims) < MaxInputRank

\* a and b declare the same extents, at least one axis, and c none
ScalarOutput ==
    /\ Len(inp) = N
    /\ inp[1].dims = inp[2].dims
    /\ Len(inp[1].dims) >= 1
    /\ inp[N].dims = <<>>

\* C8: two identical non-scalar inputs align into a rank-0 output without
\* ShapeMismatch; the output has extent 1 on every remaining axis, every
\* remaining axis is an inverse-broadcast axis, the work size is 1 and the
\* trip count is the product of the inputs' extents.
C8_ScalarReduction ==
    ScalarOutput =>
        /\ pc # "failed"
        /\ err = "none"
        /\ pc = "done" =>
                /\ \A kk \in 1..Len(opDims) :
                        shapes[N].dims[kk] = 1 /\ kk \in InverseAxes(shapes)
                /\ RegularAxes(shapes) = {}
                /\ WorkSize(shapes, opDims) = 1
                /\ TripCount(shapes, opDims) = Prod(inp[1].dims)

C8_Witness ==
    /\ ScalarOutput
    /\ pc = "done"
    /\ inp[1].dims = <<2, 2>>
    /\ TripCount(shapes, opDims) = 4

\* the operation shape of the padded inputs
PaddedOpDims == [kk \in 1..MaxInputRank |-> AxisMax(kk)]

\* storage offset of participant shape s at the logical position L of an
\* operation of shape op, positions being numbered with the first axis
\* fastest: the coordinate along axis m is the m-th digit of L in the mixed
\* radix op, and an axis of extent 1 does not advance the address
RECURSIVE OffsetFrom(_, _, _, _)
OffsetFrom(s, op, L, m) ==
    IF m > Len(op) THEN 0
    ELSE (IF s.dims[m] = 1 THEN 0 ELSE (L % op[m]) * s.strides[m])
         + OffsetFrom(s, op, L \div op[m], m + 1)

Offset(s, op, L) == OffsetFrom(s, op, L, 1)

\* participant j is stored without a gap across axes kk-1 and kk and has
\* the same broadcast status on both
Mergeable(j, kk) ==
    /\ shapes[j].strides[kk] = shapes[j].strides[kk - 1] * shapes[j].dims[kk - 1]
    /\ \/ shapes[j].dims[kk] = opDims[kk] /\ shapes[j].dims[kk - 1] = opDims[kk - 1]
       \/ shapes[j].dims[kk] = 1 /\ shapes[j].dims[kk - 1] = 1

\* at every point of the flatten loop every participant addresses, at every
\* logical position, the element it addressed before the loop
OffsetsKept ==
    pc = "flatten" =>
        \A op0 \in {PaddedOpDims} : \A j \in 1..N : \A s0 \in {Pad(inp[j], MaxInputRank)} :
            \/ shapes[j] = s0 /\ opDims = op0      \* nothing merged so far
            \/ \A L \in 0..(Prod(op0) - 1) :
                    Offset(shapes[j], opDims, L) = Offset(s0, op0, L)

\* an iteration changes the shapes or opDims only if every participant is
\* mergeable at the axis
MergeOnlyWhenMergeable ==
    (pc = "flatten" /\ pc' = "flatten" /\ (shapes' # shapes \/ opDims' # opDims)) =>
        \A j \in 1..N : Mergeable(j, k)

\* C9: flatten merges axes k-1 and k only when every participant is
\* contiguous across them and has both extents equal to opDims or both 1,
\* and it never changes the storage offset of any logical position.
C9_FlattenKeepsOffsets == []OffsetsKept /\ [][MergeOnlyWhenMergeable]_vars

\* the loop has ended, a slice kept its gap and merged its upper axes
C9_Witness ==
    /\ pc = "flatten"
    /\ k > dims
    /\ inp[1] \in SlicedShapes
    /\ inp[1].dims = <<1, 2, 2>>
    /\ shapes[1].dims = <<1, 1, 4>>
    /\ shapes[2].dims = <<1, 1, 4>>

\* C10: in the final result no axis has extent 1 in every participant, so
\* opDims is above 1 on every axis, every stride 0 belongs to an axis of
\* extent 1 broadcast against an operation extent above 1, every axis is
\* either regular or inverse-broadcast and not both; the axes removed are
\* the all-singleton ones, so no participant loses an element.
C10_NoSingletonAxisLeft ==
    pc = "done" =>
        /\ \A kk \in 1..Len(opDims) :
                /\ \E j \in 1..N : shapes[j].dims[kk] # 1
                /\ opDims[kk] > 1
                /\ \A j \in 1..N :
                        shapes[j].strides[kk] = 0 =>
                            shapes[j].dims[kk] = 1 /\ opDims[kk] > 1
                /\ (kk \in RegularAxes(shapes)) # (kk \in InverseAxes(shapes))
        /\ \A j \in 1..N : Prod(shapes[j].dims) = Prod(inp[j].dims)
        /\ Len(opDims) = Cardinality({kk \in 1..dims : ~toDrop[kk]})

\* a plan with a regular and an inverse-broadcast axis, one axis removed
C10_Witness ==
    /\ pc = "done"
    /\ Len(opDims) = 2
    /\ dims = 3
    /\ RegularAxes(shapes) # {}
    /\ InverseAxes(shapes) # {}
    /\ \E j \in 1..N : shapes[j].strides[1] = 0

====
